---- MODULE Spec2Model ----
(***************************************************************************)
(* files_archiver: the task service (TaskService), its in-memory          *)
(* repository (InMemoryRepository) and the download / archive pipeline    *)
(* that GetStatus runs inline.  One goroutine per HTTP request; a request  *)
(* is a process of the model, and every step below is one atomic          *)
(* operation of the Go code (an atomic load/add, a map operation under    *)
(* its mutex, one downloadFile call, one createZipArchive call).           *)
(***************************************************************************)
EXTENDS Integers, Sequences, FiniteSets, TLC

(***************************************************************************)
(* Bounds of the model.                                                    *)
(***************************************************************************)
\* number of goroutines that serve requests at the same time
NumProcs == 2
\* number of requests the clients issue in one behaviour
MaxRequests == 4
\* longest url list of one AddLinks request
MaxBatch == 3
\* file-system faults (os.MkdirAll, os.Create, os.Open, io.Copy, the zip
\* writer, os.Remove failing) in one behaviour
MaxFsFaults == 1

(***************************************************************************)
(* Program constants.                                                      *)
(***************************************************************************)
\* service: `activeTasksCounter >= 3`
MaxActiveTasks == 3
\* service: `len(currentURLs) >= 3`, `len(currentURLs)+len(urls) > 3`
MaxLinks == 3
\* service: `urlCount >= 3`
PipelineThreshold == 3
\* service: `taskID < 10` (zero padding of the task number)
PadBelow == 10
\* config: cfg.FileMaxSize (FILE_MAX_SIZE), one unit
FileMaxSize == 1

zipPath == "../archives"
folderPath == "archives/"
folderPathImg == "../downloads"

\* repository.Task.Status literals (Cyrillic in the source, transliterated)
StatusCreated == "sozdali"
StatusInProgress == "v processe"
StatusCompleted == "zavershena"
StatusFailed == "neuspeshno"
\* the literal GetStatus answers on the zero-downloads path
ReplyFailed == "failed"

ErrTaskNotFound == "ErrTaskNotFound"
ErrTooManyLinks == "ErrTooManyLinks"
ErrInvalidFile == "ErrInvalidFile"
ErrFileTooLarge == "ErrFileTooLarge"
ErrServerBusy == "ErrServerBusy"
\* any transport or filesystem error
ErrIO == "io error"

\* cfg.FileAllowedExtensions, in the order of the configuration
FileAllowedExtensions == <<"jpg", "png">>

Procs == 1..NumProcs

\* the urls clients submit (the handler has validated their syntax): a small
\* picture, and a resource without extension in its path
URLS == {"http://h/a.jpg", "http://h/b"}

\* strings.ToLower(filepath.Ext(url))
Ext(url) == IF url = "http://h/a.jpg" THEN ".jpg" ELSE ""

\* what the server holds at a url: the Content-Type, the declared
\* ContentLength (-1: not declared) and the size of the body
Resource(url) ==
    IF url = "http://h/a.jpg"
    THEN [type |-> "image/jpeg", cl |-> FileMaxSize, body |-> FileMaxSize]
    ELSE [type |-> "image/png", cl |-> -1, body |-> FileMaxSize + 1]

\* the url lists of an AddLinks request: up to MaxBatch links to one url
Batches == {[i \in 1..n |-> u] : n \in 0..MaxBatch, u \in URLS}

VARIABLES
    Tasks,              \* repo.Tasks: map[int64]Task
    urlsByTask,         \* s.urlsByTask: map[int64][]string
    urlsMu,             \* s.urlsMu: sync.RWMutex
    taskCounter,        \* s.taskCounter
    activeTasksCounter, \* s.activeTasksCounter
    filesCounter,       \* s.filesCounter
    disk,               \* the files under folderPathImg
    archives,           \* the archive files: name -> entries
    faults,             \* file-system faults so far
    crashed,            \* the runtime stopped the process (fatal error)
    pc,                 \* where each request goroutine is
    tid,                \* its taskID argument or local
    urls,               \* its urls argument
    task,               \* its local copy `task` of the repository record
    files,              \* GetStatus: its local `files`
    idx,                \* GetStatus: position of the range loop
    archivePath,        \* GetStatus: its local `archivePath`
    reply,              \* the response this step sent (NoRes: none)
    issued,             \* requests issued so far
    pipelineRuns,       \* history: pipeline starts per task
    accepted,           \* history: urls of the AddLinks calls that returned nil
    returned            \* history: the ids CreateTask has returned

vars ==
    <<Tasks, urlsByTask, urlsMu, taskCounter, activeTasksCounter, filesCounter,
      disk, archives, faults, crashed, pc, tid, urls, task, files, idx,
      archivePath, reply, issued, pipelineRuns, accepted, returned>>

counters == <<taskCounter, activeTasksCounter, filesCounter>>

fsys == <<disk, archives, faults>>

shared == <<Tasks, urlsByTask, urlsMu, counters, fsys, crashed>>

locals == <<tid, urls, task, files, idx, archivePath>>

history == <<pipelineRuns, accepted, returned>>

(***************************************************************************)
(* Values.                                                                 *)
(***************************************************************************)
\* repository.Task{} (URLs is never set by the service and is left out)
NoTask == [ID |-> 0, Status |-> "", ArchivePath |-> ""]

\* what a call returned: the goroutine, the operation, its error,
\* CreateTask's id, GetStatus's map entries "status" and "archive_url"
NoRes ==
    [proc |-> 0, op |-> "", err |-> "", taskID |-> 0, status |-> "",
     archive_url |-> ""]

\* cfg.ServerPort as fmt.Sprintf("%d") prints it
ServerPortText == "8080"

Digit(d) ==
    CASE d = 0 -> "0" [] d = 1 -> "1" [] d = 2 -> "2" [] d = 3 -> "3"
      [] d = 4 -> "4" [] d = 5 -> "5" [] d = 6 -> "6" [] d = 7 -> "7"
      [] d = 8 -> "8" [] d = 9 -> "9"

\* strconv.FormatInt(n, 10) for n >= 0
RECURSIVE FormatInt(_)
FormatInt(n) ==
    IF n < 10 THEN Digit(n) ELSE FormatInt(n \div 10) \o Digit(n % 10)

\* "Task_" + the task number, zero-padded to two digits
zipName(taskID) ==
    IF taskID < PadBelow
    THEN "Task_" \o "0" \o FormatInt(taskID)
    ELSE "Task_" \o FormatInt(taskID)

(***************************************************************************)
(* InMemoryRepository: each method runs under r.mu, so it is one step.     *)
(***************************************************************************)
SaveTask(m, t) ==
    [i \in DOMAIN m \cup {t.ID} |-> IF i = t.ID THEN t ELSE m[i]]

\* GetTask's `exists`
TaskExists(m, id) == id \in DOMAIN m

(***************************************************************************)
(* A Go map: a missing key reads as the zero value z.                      *)
(***************************************************************************)
MapGet(m, k, z) == IF k \in DOMAIN m THEN m[k] ELSE z

MapSet(m, k, v) == [i \in DOMAIN m \cup {k} |-> IF i = k THEN v ELSE m[i]]

\* s.urlsByTask[id]
Ledger(m, id) == MapGet(m, id, <<>>)

(***************************************************************************)
(* sync.RWMutex.  w is the writer that holds rw.w and has announced        *)
(* itself (0: none); r the goroutines that hold the read lock; rwait the   *)
(* readers that arrived after the announcement and sleep on readerSem.     *)
(***************************************************************************)
RLock(mu, p) ==
    IF mu.w = 0
    THEN [mu EXCEPT !.r = @ \cup {p}]
    ELSE [mu EXCEPT !.rwait = @ \cup {p}]

RUnlock(mu, p) == [mu EXCEPT !.r = @ \ {p}]

\* Lock, first half: take rw.w and announce; waits while a writer has rw.w
CanAnnounce(mu) == mu.w = 0

Announce(mu, p) == [mu EXCEPT !.w = p]

\* Lock, second half: the announced writer runs once the readers have left
HoldsLock(mu, p) == mu.w = p /\ mu.r = {}

\* Unlock: the sleeping readers get the read lock, rw.w is released
Unlock(mu) == [w |-> 0, r |-> mu.rwait, rwait |-> {}]

HoldsRLock(mu, p) == p \in mu.r

\* RLock ... RUnlock around one read.  From `before`, with no writer
\* announced, RLock returns at once and the section is one step; with a
\* writer announced the goroutine sleeps (pc `asleep`) until Unlock wakes it.
MustSleep(p, before) == pc[p] = before /\ urlsMu.w # 0

ReadSection(p, before, asleep) ==
    \/ pc[p] = before /\ urlsMu.w = 0
    \/ pc[p] = asleep /\ HoldsRLock(urlsMu, p)

AfterReadSection(p, before) ==
    RUnlock(IF pc[p] = before THEN RLock(urlsMu, p) ELSE urlsMu, p)

\* Lock ... Unlock.  From `before`, with rw.w free and no reader inside,
\* Lock returns at once and the section is one step; with readers inside the
\* writer announces itself and waits (pc `waiting`) until they have left.
MustWait(p, before) ==
    pc[p] = before /\ CanAnnounce(urlsMu) /\ urlsMu.r # {}

WriteSection(p, before, waiting) ==
    \/ pc[p] = before /\ CanAnnounce(urlsMu) /\ urlsMu.r = {}
    \/ pc[p] = waiting /\ HoldsLock(urlsMu, p)

\* the section without its s.urlsMu.Unlock()
AfterWriteSection_NoUnlock(p, before) ==
    IF pc[p] = before THEN Announce(urlsMu, p) ELSE urlsMu

AfterWriteSection(p, before) ==
    Unlock(IF pc[p] = before THEN Announce(urlsMu, p) ELSE urlsMu)

(***************************************************************************)
(* Control.                                                                *)
(***************************************************************************)
\* the goroutine goes on to l; the step sends no response
Goto(p, l) ==
    /\ pc' = [pc EXCEPT ![p] = l]
    /\ reply' = NoRes

\* the call returns r: the goroutine ends and its locals are gone
Return(p, r) ==
    /\ pc' = [pc EXCEPT ![p] = "idle"]
    /\ reply' = [r EXCEPT !.proc = p]
    /\ tid' = [tid EXCEPT ![p] = 0]
    /\ urls' = [urls EXCEPT ![p] = <<>>]
    /\ task' = [task EXCEPT ![p] = NoTask]
    /\ files' = [files EXCEPT ![p] = <<>>]
    /\ idx' = [idx EXCEPT ![p] = 0]
    /\ archivePath' = [archivePath EXCEPT ![p] = ""]

\* goroutine p is at l and the process runs
At(p, l) == ~crashed /\ pc[p] = l

\* a client may issue a request to goroutine p
CanCall(p) == At(p, "idle") /\ issued < MaxRequests

\* the ids a request names: the allocated ones and one that is unknown
TaskIDs == 1..(taskCounter + 1)

Init ==
    /\ Tasks = <<>>
    /\ urlsByTask = <<>>
    /\ urlsMu = [w |-> 0, r |-> {}, rwait |-> {}]
    /\ taskCounter = 0
    /\ activeTasksCounter = 0
    /\ filesCounter = 0
    /\ disk = {}
    /\ archives = <<>>
    /\ faults = 0
    /\ crashed = FALSE
    /\ pc = [p \in Procs |-> "idle"]
    /\ tid = [p \in Procs |-> 0]
    /\ urls = [p \in Procs |-> <<>>]
    /\ task = [p \in Procs |-> NoTask]
    /\ files = [p \in Procs |-> <<>>]
    /\ idx = [p \in Procs |-> 0]
    /\ archivePath = [p \in Procs |-> ""]
    /\ reply = NoRes
    /\ issued = 0
    /\ pipelineRuns = <<>>
    /\ accepted = <<>>
    /\ returned = {}

(***************************************************************************)
(* TaskService.CreateTask                                                  *)
(***************************************************************************)
\* the comparison of line 64 with > for >=
ServerBusy_OffByOne(active) == active > MaxActiveTasks

\* `atomic.LoadInt64(&s.activeTasksCounter) >= 3`
ServerBusy(active) == active >= MaxActiveTasks

\* lines 79-83 with the ArchivePath left out
NewTask_NoPath(taskID) ==
    [ID |-> taskID, Status |-> StatusCreated, ArchivePath |-> ""]

\* the task CreateTask saves
NewTask(taskID) ==
    [ID |-> taskID, Status |-> StatusCreated,
     ArchivePath |-> zipPath \o "/" \o zipName(taskID)]

\* lines 64-66: the load and the early return
CreateTaskCall(p) ==
    /\ CanCall(p)
    /\ issued' = issued + 1
    /\ IF ServerBusy(activeTasksCounter)
       THEN Return(p, [NoRes EXCEPT !.op = "CreateTask", !.err = ErrServerBusy])
       ELSE Goto(p, "ct_inc") /\ UNCHANGED locals
    /\ UNCHANGED <<shared, history>>

\* line 67
CreateTaskInc(p) ==
    /\ At(p, "ct_inc")
    /\ activeTasksCounter' = activeTasksCounter + 1
    /\ Goto(p, "ct_id")
    /\ UNCHANGED <<Tasks, urlsByTask, urlsMu, taskCounter, filesCounter, fsys,
                   crashed, locals, issued, history>>

\* line 69 as a load and a store of the value already there
NextID_Reused(counter) == IF counter = 0 THEN 1 ELSE counter

\* line 69: what atomic.AddInt64(&s.taskCounter, 1) stores and returns
NextID(counter) == counter + 1

\* line 69
CreateTaskID(p) ==
    /\ At(p, "ct_id")
    /\ taskCounter' = NextID(taskCounter)
    /\ tid' = [tid EXCEPT ![p] = NextID(taskCounter)]
    /\ Goto(p, "ct_save")
    /\ UNCHANGED <<Tasks, urlsByTask, urlsMu, activeTasksCounter, filesCounter,
                   fsys, crashed, urls, task, files, idx, archivePath, issued,
                   history>>

\* lines 71-87: SaveTask never fails
CreateTaskSave(p) ==
    /\ At(p, "ct_save")
    /\ Tasks' = SaveTask(Tasks, NewTask(tid[p]))
    /\ Goto(p, "ct_lock")
    /\ UNCHANGED <<urlsByTask, urlsMu, counters, fsys, crashed, locals, issued,
                   history>>

\* line 89, with readers inside
CreateTaskLock(p) ==
    /\ ~crashed
    /\ MustWait(p, "ct_lock")
    /\ urlsMu' = Announce(urlsMu, p)
    /\ Goto(p, "ct_init")
    /\ UNCHANGED <<Tasks, urlsByTask, counters, fsys, crashed, locals, issued,
                   history>>

\* lines 89-93: the critical section and the return
CreateTaskInit(p) ==
    /\ ~crashed
    /\ WriteSection(p, "ct_lock", "ct_init")
    /\ urlsByTask' = MapSet(urlsByTask, tid[p], <<>>)
    /\ urlsMu' = AfterWriteSection(p, "ct_lock")
    /\ Return(p, [NoRes EXCEPT !.op = "CreateTask", !.taskID = tid[p]])
    /\ returned' = returned \cup {tid[p]}
    /\ UNCHANGED <<Tasks, counters, fsys, crashed, issued, pipelineRuns,
                   accepted>>

(***************************************************************************)
(* TaskService.AddLinks                                                    *)
(***************************************************************************)
\* lines 107-113 without the second check
TooManyLinks_FirstCheckOnly(currentURLs, us) == Len(currentURLs) >= MaxLinks

\* lines 107-113
TooManyLinks(currentURLs, us) ==
    \/ Len(currentURLs) >= MaxLinks
    \/ Len(currentURLs) + Len(us) > MaxLinks

\* line 118 left out: the copy is saved as it was read
LinkedTask_StatusKept(t) == t

\* line 117: the local copy read at line 98, with the new status
LinkedTask(t) == [t EXCEPT !.Status = StatusInProgress]

\* lines 98-101: GetTask
AddLinksCall(p, t, us) ==
    /\ CanCall(p)
    /\ issued' = issued + 1
    /\ IF TaskExists(Tasks, t)
       THEN /\ Goto(p, "al_rlock")
            /\ tid' = [tid EXCEPT ![p] = t]
            /\ urls' = [urls EXCEPT ![p] = us]
            /\ task' = [task EXCEPT ![p] = Tasks[t]]
            /\ UNCHANGED <<files, idx, archivePath>>
       ELSE Return(p, [NoRes EXCEPT !.op = "AddLinks", !.err = ErrTaskNotFound])
    /\ UNCHANGED <<shared, history>>

\* line 103, with a writer announced
AddLinksRLock(p) ==
    /\ ~crashed
    /\ MustSleep(p, "al_rlock")
    /\ urlsMu' = RLock(urlsMu, p)
    /\ Goto(p, "al_read")
    /\ UNCHANGED <<Tasks, urlsByTask, counters, fsys, crashed, locals, issued,
                   history>>

\* lines 103-113: the read under the read lock and the two checks
AddLinksRead(p) ==
    /\ ~crashed
    /\ ReadSection(p, "al_rlock", "al_read")
    /\ urlsMu' = AfterReadSection(p, "al_rlock")
    /\ IF TooManyLinks(Ledger(urlsByTask, tid[p]), urls[p])
       THEN Return(p, [NoRes EXCEPT !.op = "AddLinks", !.err = ErrTooManyLinks])
       ELSE Goto(p, "al_lock") /\ UNCHANGED locals
    /\ UNCHANGED <<Tasks, urlsByTask, counters, fsys, crashed, issued, history>>

\* line 115, with readers inside
AddLinksLock(p) ==
    /\ ~crashed
    /\ MustWait(p, "al_lock")
    /\ urlsMu' = Announce(urlsMu, p)
    /\ Goto(p, "al_write")
    /\ UNCHANGED <<Tasks, urlsByTask, counters, fsys, crashed, locals, issued,
                   history>>

\* lines 115-124: the critical section (append, SaveTask) and the return
AddLinksWrite(p) ==
    /\ ~crashed
    /\ WriteSection(p, "al_lock", "al_write")
    /\ urlsByTask' = MapSet(urlsByTask, tid[p],
                            Ledger(urlsByTask, tid[p]) \o urls[p])
    /\ Tasks' = SaveTask(Tasks, LinkedTask(task[p]))
    /\ urlsMu' = AfterWriteSection(p, "al_lock")
    /\ accepted' = MapSet(accepted, tid[p], Ledger(accepted, tid[p]) \o urls[p])
    /\ Return(p, [NoRes EXCEPT !.op = "AddLinks"])
    /\ UNCHANGED <<counters, fsys, crashed, issued, pipelineRuns, returned>>

(***************************************************************************)
(* What the network and the file system answer.                            *)
(***************************************************************************)
\* the HEAD request (sent only for a url without an allowed extension): a
\* transport error, an error page, or the resource's Content-Type
HeadReplies(url) == {"err", "text/html", Resource(url).type}

\* strings.Contains(contentType, allowed)
Contains(contentType, allowed) == contentType = "image/" \o allowed

\* the GET request: a transport error, a response that declares a length
\* over the limit, or the resource
GetReplies(url) ==
    {[err |-> TRUE, cl |-> 0, body |-> 0],
     [err |-> FALSE, cl |-> FileMaxSize + 1, body |-> FileMaxSize + 1],
     [err |-> FALSE, cl |-> Resource(url).cl, body |-> Resource(url).body]}

\* os.MkdirAll / os.Create / io.Copy: fine, or within the fault budget no
\* file, or a file cut short after `written` units
FsReplies(body, budget) ==
    {[kind |-> "ok", written |-> body]} \cup
    IF budget > 0
    THEN {[kind |-> "create_err", written |-> 0]} \cup
         {[kind |-> "copy_err", written |-> w] : w \in 0..(body - 1)}
    ELSE {}

(***************************************************************************)
(* TaskService.downloadFile, as a function of what the environment         *)
(* answers.  The result: the error ("" for nil), the file returned, the    *)
(* new value of filesCounter, the files the call left on the disk and the  *)
(* number of file-system faults it met.                                    *)
(***************************************************************************)
\* lines 213-220: the extension is in the allow-list
ExtAllowed(ext) ==
    \E i \in 1..Len(FileAllowedExtensions) : ext = "." \o FileAllowedExtensions[i]

\* lines 238-244: the first allowed extension the content type contains (0: none)
TypeMatch(contentType) ==
    LET hits == {i \in 1..Len(FileAllowedExtensions) :
                    Contains(contentType, FileAllowedExtensions[i])}
    IN IF hits = {} THEN 0 ELSE CHOOSE i \in hits : \A j \in hits : i <= j

\* line 262
FileTooLarge(contentLength) == contentLength > FileMaxSize

\* lines 266-274 with the file counter left out of the name
BaseName_NoCounter(taskID, n, ext) == zipName(taskID) \o ext

\* lines 266-274, without the directory
BaseName(taskID, n, ext) == zipName(taskID) \o "_" \o FormatInt(n) \o ext

NoFile == [base |-> "", size |-> 0]

DownloadFailed(e, counter, left, fault) ==
    [err |-> e, file |-> NoFile, counter |-> counter, left |-> left,
     fault |-> fault]

downloadFile(url, taskID, counter, head, get, fs) ==
    LET ext0 == Ext(url)
        m == TypeMatch(head)
        ext == IF ExtAllowed(ext0) THEN ext0
               ELSE IF m # 0 THEN "." \o FileAllowedExtensions[m] ELSE ""
        n == counter + 1
        f == [base |-> BaseName(taskID, n, ext), size |-> fs.written]
    IN IF ~ExtAllowed(ext0) /\ head = "err"
       THEN DownloadFailed(ErrIO, counter, {}, 0)
       ELSE IF ~ExtAllowed(ext0) /\ m = 0
       THEN DownloadFailed(ErrInvalidFile, counter, {}, 0)
       ELSE IF get.err
       THEN DownloadFailed(ErrIO, counter, {}, 0)
       ELSE IF FileTooLarge(get.cl)
       THEN DownloadFailed(ErrFileTooLarge, counter, {}, 0)
       ELSE IF fs.kind = "create_err"
       THEN DownloadFailed(ErrIO, n, {}, 1)
       ELSE IF fs.kind = "copy_err"
       THEN DownloadFailed(ErrIO, n, {f}, 1)
       ELSE [err |-> "", file |-> f, counter |-> n, left |-> {f}, fault |-> 0]

(***************************************************************************)
(* TaskService.createZipArchive and deleteFiles                            *)
(***************************************************************************)
\* os.Create of the archive fails or not; the file that os.Open refuses
\* (0: none); the file whose zip entry cannot be written (0: none); the
\* file that os.Remove refuses (0: none)
EnvFaults(e) ==
    (IF e.create = "err" THEN 1 ELSE 0) + (IF e.openFail # 0 THEN 1 ELSE 0)
    + (IF e.zipFail # 0 THEN 1 ELSE 0) + (IF e.delFail # 0 THEN 1 ELSE 0)

\* the answers for n files within the fault budget; a fault named is a
\* fault met (nothing is opened once os.Create failed, nothing is removed
\* once the archive failed)
ArchiveEnvs(n, budget) ==
    {e \in [create : {"ok", "err"}, openFail : 0..n, zipFail : 0..n,
            delFail : 0..n] :
        /\ EnvFaults(e) <= budget
        /\ e.create = "err" => e.openFail = 0 /\ e.zipFail = 0 /\ e.delFail = 0
        /\ e.zipFail # 0 => e.delFail = 0 /\ e.openFail < e.zipFail}

\* lines 329-338
PublicPath(taskID) == folderPath \o zipName(taskID) \o ".zip"

\* the result: the error, the path returned, the archive file written
\* (created, name, entries)
createZipArchive(storedPath, taskID, fs, env) ==
    LET name == storedPath \o ".zip"
        failed == env.zipFail # 0
        last == IF failed THEN env.zipFail - 1 ELSE Len(fs)
        entries == {fs[j] : j \in {k \in 1..last : k # env.openFail}}
    IN IF env.create = "err"
       THEN [err |-> ErrIO, path |-> "", created |-> FALSE, name |-> name,
             entries |-> {}]
       ELSE IF failed
       THEN [err |-> ErrIO, path |-> "", created |-> TRUE, name |-> name,
             entries |-> entries]
       ELSE [err |-> "", path |-> PublicPath(taskID), created |-> TRUE,
             name |-> name, entries |-> entries]

\* deleteFiles stops at the first file it cannot remove (failAt, 0: none);
\* the result: the error and the files removed
deleteFiles(fs, failAt) ==
    IF failAt = 0
    THEN [err |-> "", removed |-> {fs[j] : j \in 1..Len(fs)}]
    ELSE [err |-> ErrIO, removed |-> {fs[j] : j \in 1..(failAt - 1)}]

(***************************************************************************)
(* TaskService.GetStatus                                                   *)
(***************************************************************************)
\* line 142 with 2 for 3
RunsPipeline_OffByOne(urlCount) == urlCount >= PipelineThreshold - 1

\* line 142
RunsPipeline(urlCount) == urlCount >= PipelineThreshold

\* lines 159, 169: the local copy read at line 129, with the new status
FailedTask(t) == [t EXCEPT !.Status = StatusFailed]

\* lines 181, 185
CompletedTask(t, path) ==
    [t EXCEPT !.Status = StatusCompleted, !.ArchivePath = path]

\* line 190
ArchiveURL(t) == "http://localhost:" \o ServerPortText \o "/" \o t.ArchivePath

\* lines 129-132: GetTask
GetStatusCall(p, t) ==
    /\ CanCall(p)
    /\ issued' = issued + 1
    /\ IF TaskExists(Tasks, t)
       THEN /\ Goto(p, "gs_rlock1")
            /\ tid' = [tid EXCEPT ![p] = t]
            /\ task' = [task EXCEPT ![p] = Tasks[t]]
            /\ UNCHANGED <<urls, files, idx, archivePath>>
       ELSE Return(p, [NoRes EXCEPT !.op = "GetStatus", !.err = ErrTaskNotFound])
    /\ UNCHANGED <<shared, history>>

\* line 134, with a writer announced
GetStatusRLock1(p) ==
    /\ ~crashed
    /\ MustSleep(p, "gs_rlock1")
    /\ urlsMu' = RLock(urlsMu, p)
    /\ Goto(p, "gs_count")
    /\ UNCHANGED <<Tasks, urlsByTask, counters, fsys, crashed, locals, issued,
                   history>>

\* lines 134-142 and 193: the count, and the answer when it is below 3
GetStatusCount(p) ==
    /\ ~crashed
    /\ ReadSection(p, "gs_rlock1", "gs_count")
    /\ urlsMu' = AfterReadSection(p, "gs_rlock1")
    /\ IF RunsPipeline(Len(Ledger(urlsByTask, tid[p])))
       THEN /\ Goto(p, "gs_rlock2")
            /\ pipelineRuns' = MapSet(pipelineRuns, tid[p],
                                      MapGet(pipelineRuns, tid[p], 0) + 1)
            /\ UNCHANGED locals
       ELSE /\ Return(p, [NoRes EXCEPT !.op = "GetStatus",
                                       !.status = StatusInProgress])
            /\ UNCHANGED pipelineRuns
    /\ UNCHANGED <<Tasks, urlsByTask, counters, fsys, crashed, issued, accepted,
                   returned>>

\* line 146: RLock returns, or the goroutine sleeps until Unlock wakes it
GetStatusRLock2(p) ==
    /\ At(p, "gs_rlock2")
    /\ urlsMu' = RLock(urlsMu, p)
    /\ Goto(p, "gs_loop")
    /\ idx' = [idx EXCEPT ![p] = 1]
    /\ UNCHANGED <<Tasks, urlsByTask, counters, fsys, crashed, tid, urls, task,
                   files, archivePath, issued, history>>

\* lines 148-155: one round of the loop, one downloadFile call
GetStatusDownload(p) ==
    /\ At(p, "gs_loop")
    /\ HoldsRLock(urlsMu, p)
    /\ idx[p] <= Len(Ledger(urlsByTask, tid[p]))
    /\ LET u == Ledger(urlsByTask, tid[p])[idx[p]]
       IN \E head \in HeadReplies(u), get \in GetReplies(u) :
          \E fs \in FsReplies(get.body, MaxFsFaults - faults) :
             LET d == downloadFile(u, tid[p], filesCounter, head, get, fs)
             IN /\ filesCounter' = d.counter
                /\ disk' = disk \cup d.left
                /\ faults' = faults + d.fault
                /\ files' = [files EXCEPT ![p] =
                                IF d.err = "" THEN Append(@, d.file) ELSE @]
    /\ idx' = [idx EXCEPT ![p] = @ + 1]
    /\ Goto(p, "gs_loop")
    /\ UNCHANGED <<Tasks, urlsByTask, urlsMu, taskCounter, activeTasksCounter,
                   archives, crashed, tid, urls, task, archivePath, issued,
                   history>>

\* line 158 with the test dropped
NoDownload_Never(fs) == FALSE

\* line 158
NoDownload(fs) == Len(fs) = 0

\* lines 156-158: the end of the loop
GetStatusRUnlock(p) ==
    /\ At(p, "gs_loop")
    /\ HoldsRLock(urlsMu, p)
    /\ idx[p] > Len(Ledger(urlsByTask, tid[p]))
    /\ urlsMu' = RUnlock(urlsMu, p)
    /\ Goto(p, IF NoDownload(files[p]) THEN "gs_nofiles" ELSE "gs_zip")
    /\ UNCHANGED <<Tasks, urlsByTask, counters, fsys, crashed, locals, issued,
                   history>>

\* lines 159-163
GetStatusNoFiles(p) ==
    /\ At(p, "gs_nofiles")
    /\ Tasks' = SaveTask(Tasks, FailedTask(task[p]))
    /\ Return(p, [NoRes EXCEPT !.op = "GetStatus", !.status = ReplyFailed])
    /\ UNCHANGED <<urlsByTask, urlsMu, counters, fsys, crashed, issued, history>>

\* lines 166-179: createZipArchive (its read of s.repo.Tasks takes no lock)
\* and, when it returned no error, deleteFiles
GetStatusArchive(p) ==
    /\ At(p, "gs_zip")
    /\ \E env \in ArchiveEnvs(Len(files[p]), MaxFsFaults - faults) :
          LET z == createZipArchive(Tasks[tid[p]].ArchivePath, tid[p],
                                    files[p], env)
              d == deleteFiles(files[p], env.delFail)
          IN /\ archives' = IF z.created
                            THEN MapSet(archives, z.name, z.entries)
                            ELSE archives
             /\ faults' = faults + EnvFaults(env)
             /\ IF z.err # ""
                THEN /\ Goto(p, "gs_zipfailed")
                     /\ UNCHANGED <<disk, archivePath>>
                ELSE /\ Goto(p, "gs_dec")
                     /\ disk' = disk \ d.removed
                     /\ archivePath' = [archivePath EXCEPT ![p] = z.path]
    /\ UNCHANGED <<Tasks, urlsByTask, urlsMu, counters, crashed, tid, urls,
                   task, files, idx, issued, history>>

\* goroutine q is about to write s.repo.Tasks
AboutToSave(q) ==
    \/ pc[q] \in {"ct_save", "gs_nofiles", "gs_zipfailed", "gs_save"}
    \/ WriteSection(q, "al_lock", "al_write")

\* line 295 while another goroutine writes the map: the runtime may stop
\* the process ("concurrent map read and map write")
GetStatusArchiveRace(p) ==
    /\ At(p, "gs_zip")
    /\ \E q \in Procs \ {p} : AboutToSave(q)
    /\ crashed' = TRUE
    /\ reply' = NoRes
    /\ UNCHANGED <<Tasks, urlsByTask, urlsMu, counters, fsys, pc, locals,
                   issued, history>>

\* lines 167-174
GetStatusArchiveFailed(p) ==
    /\ At(p, "gs_zipfailed")
    /\ Tasks' = SaveTask(Tasks, FailedTask(task[p]))
    /\ Return(p, [NoRes EXCEPT !.op = "GetStatus", !.status = StatusFailed])
    /\ UNCHANGED <<urlsByTask, urlsMu, counters, fsys, crashed, issued, history>>

\* lines 181-183
GetStatusDecrement(p) ==
    /\ At(p, "gs_dec")
    /\ activeTasksCounter' = activeTasksCounter - 1
    /\ Goto(p, "gs_save")
    /\ UNCHANGED <<Tasks, urlsByTask, urlsMu, taskCounter, filesCounter, fsys,
                   crashed, locals, issued, history>>

\* lines 181-193
GetStatusComplete(p) ==
    /\ At(p, "gs_save")
    /\ Tasks' = SaveTask(Tasks, CompletedTask(task[p], archivePath[p]))
    /\ Return(p, [NoRes EXCEPT
                    !.op = "GetStatus", !.status = StatusCompleted,
                    !.archive_url =
                        ArchiveURL(CompletedTask(task[p], archivePath[p]))])
    /\ UNCHANGED <<urlsByTask, urlsMu, counters, fsys, crashed, issued, history>>

(***************************************************************************)
(* The server: any goroutine takes its next step, or a client issues a     *)
(* request.                                                                *)
(***************************************************************************)
Next ==
    \E p \in Procs :
        \/ CreateTaskCall(p)
        \/ CreateTaskInc(p)
        \/ CreateTaskID(p)
        \/ CreateTaskSave(p)
        \/ CreateTaskLock(p)
        \/ CreateTaskInit(p)
        \/ \E t \in TaskIDs, us \in Batches : AddLinksCall(p, t, us)
        \/ AddLinksRLock(p)
        \/ AddLinksRead(p)
        \/ AddLinksLock(p)
        \/ AddLinksWrite(p)
        \/ \E t \in TaskIDs : GetStatusCall(p, t)
        \/ GetStatusRLock1(p)
        \/ GetStatusCount(p)
        \/ GetStatusRLock2(p)
        \/ GetStatusDownload(p)
        \/ GetStatusRUnlock(p)
        \/ GetStatusNoFiles(p)
        \/ GetStatusArchive(p)
        \/ GetStatusArchiveRace(p)
        \/ GetStatusArchiveFailed(p)
        \/ GetStatusDecrement(p)
        \/ GetStatusComplete(p)

Spec == Init /\ [][Next]_vars

(***************************************************************************)
(* What the properties below speak of.                                     *)
(***************************************************************************)
\* completed or failed
Terminal(status) == status \in {StatusCompleted, StatusFailed}

\* the tasks of the registry that are created or in progress
ActiveTasks == {t \in DOMAIN Tasks : ~Terminal(Tasks[t].Status)}

\* this step is goroutine p's first step of a CreateTask call
CreateTaskCalled(p) ==
    /\ pc[p] = "idle"
    /\ pc'[p] = "ct_inc" \/ (reply'.proc = p /\ reply'.op = "CreateTask")

\* this step is goroutine p's read of the ledger in AddLinks
AddLinksChecked(p) ==
    pc[p] \in {"al_rlock", "al_read"} /\ pc'[p] \in {"idle", "al_lock"}

\* this step is goroutine p's count of the ledger in GetStatus
GetStatusCounted(p) ==
    pc[p] \in {"gs_rlock1", "gs_count"} /\ pc'[p] \in {"idle", "gs_rlock2"}

\* goroutine p is inside the pipeline of GetStatus
InPipeline(p) ==
    pc[p] \in {"gs_rlock2", "gs_loop", "gs_nofiles", "gs_zip", "gs_zipfailed",
               "gs_dec", "gs_save"}

\* this step ends a pipeline run of goroutine p: GetStatus returns
PipelineReturned(p) ==
    pc[p] \in {"gs_nofiles", "gs_zipfailed", "gs_save"} /\ pc'[p] = "idle"

(***************************************************************************)
(* C1.  The active-task counter never exceeds 3 and at most 3 tasks are     *)
(* created or in progress at the same time.  The code refutes it: the      *)
(* load of line 64 and the add of line 67 are two steps.                   *)
(***************************************************************************)
C1_AtMostThreeActive ==
    /\ activeTasksCounter <= 3
    /\ Cardinality(ActiveTasks) <= 3

(***************************************************************************)
(* C2.  A CreateTask call that finds the active-task counter at 3 (or      *)
(* above) answers ErrServerBusy in that same step and changes nothing: no  *)
(* task id is allocated, no task is saved, no ledger entry is made, the    *)
(* counter keeps its value.                                                *)
(***************************************************************************)
C2_BusyChangesNothing ==
    [][\A p \in Procs :
          CreateTaskCalled(p) /\ activeTasksCounter >= 3
          => /\ reply'.proc = p /\ reply'.err = ErrServerBusy
             /\ pc'[p] = "idle"
             /\ UNCHANGED <<taskCounter, Tasks, urlsByTask, activeTasksCounter,
                            filesCounter, disk, archives>>]_vars

\* a CreateTask call has just been refused at the cap
C2_Witness ==
    /\ reply.op = "CreateTask" /\ reply.err = ErrServerBusy
    /\ activeTasksCounter >= 3

(***************************************************************************)
(* C3.  Whenever a pipeline run moves a task to a terminal state,          *)
(* completed or failed, that run has decremented the active-task counter   *)
(* (line 183; the goroutine is then at the save of line 186).  The code    *)
(* refutes it: the two failed paths return without the decrement.          *)
(***************************************************************************)
C3_TerminalDecrements ==
    [][\A p \in Procs :
          PipelineReturned(p) /\ Terminal(Tasks'[tid[p]].Status)
          => pc[p] = "gs_save"]_vars

(***************************************************************************)
(* C4.  The link ledger of every task holds at most 3 urls.  The code      *)
(* refutes it: AddLinks checks the length under the read lock and appends  *)
(* under the write lock taken afterwards.                                  *)
(***************************************************************************)
C4_LedgerAtMostThree ==
    \A t \in DOMAIN urlsByTask : Len(urlsByTask[t]) <= 3

(***************************************************************************)
(* C5.  An AddLinks call that reads a ledger of 3 urls, or one whose       *)
(* length plus the number of submitted urls exceeds 3, answers             *)
(* ErrTooManyLinks in that step and leaves the ledgers and the task        *)
(* records as they were; the steps of the call before the read leave them  *)
(* too.                                                                    *)
(***************************************************************************)
C5_TooManyLinksChangesNothing ==
    [][\A p \in Procs :
          /\ /\ AddLinksChecked(p)
             /\ \/ Len(Ledger(urlsByTask, tid[p])) >= 3
                \/ Len(Ledger(urlsByTask, tid[p])) + Len(urls[p]) > 3
             => /\ pc'[p] = "idle"
                /\ reply'.proc = p /\ reply'.err = ErrTooManyLinks
                /\ UNCHANGED <<urlsByTask, Tasks>>
          /\ pc'[p] \in {"al_rlock", "al_read"} /\ pc'[p] # pc[p]
             => UNCHANGED <<urlsByTask, Tasks>>]_vars

\* an AddLinks call has just been refused, on a task that exists
C5_Witness ==
    /\ reply.op = "AddLinks" /\ reply.err = ErrTooManyLinks
    /\ \E t \in DOMAIN Tasks : Len(Ledger(urlsByTask, t)) >= 2

(***************************************************************************)
(* C6.  Once the stored status of a task is completed or failed, no step   *)
(* changes it.  The code refutes it: GetStatus runs the pipeline again on  *)
(* a terminal task, and AddLinks saves the copy it read before.            *)
(***************************************************************************)
C6_TerminalIsFinal ==
    [][\A t \in DOMAIN Tasks :
          Terminal(Tasks[t].Status) => Tasks'[t].Status = Tasks[t].Status]_vars

(***************************************************************************)
(* C7.  A GetStatus call that finds the task stored as completed (an       *)
(* earlier call stored it and returned completed in one step) downloads    *)
(* nothing, archives nothing, leaves the task records, the active-task     *)
(* counter and the file counter unchanged, and returns completed with the  *)
(* stored archive url.  The code refutes it: the pipeline runs again.      *)
(***************************************************************************)
C7_PollAfterCompletedIdempotent ==
    [][\A p \in Procs :
          /\ pc[p] \in {"gs_rlock1", "gs_count"} \/ InPipeline(p)
          /\ task[p].Status = StatusCompleted
          /\ pc'[p] # pc[p] \/ idx'[p] # idx[p]
          => /\ UNCHANGED <<Tasks, activeTasksCounter, filesCounter, disk,
                            archives>>
             /\ pc'[p] = "idle"
                => /\ reply'.status = StatusCompleted
                   /\ reply'.archive_url = ArchiveURL(task[p])]_vars

(***************************************************************************)
(* C8.  The pipeline is started at most once for every task.  The code     *)
(* refutes it: every GetStatus call that counts 3 urls starts it.          *)
(***************************************************************************)
C8_PipelineStartsOnce ==
    \A t \in DOMAIN pipelineRuns : pipelineRuns[t] <= 1

(***************************************************************************)
(* C9.  A GetStatus call that counts fewer than 3 urls in the ledger of    *)
(* its task answers in that step, with the status in progress and no       *)
(* archive_url, and changes nothing: the task records, the ledgers, the    *)
(* three counters, the disk and the archives stay, and no pipeline         *)
(* starts; the steps of the call before the count change none of them      *)
(* either.                                                                 *)
(***************************************************************************)
C9_PollBelowThreeIsPure ==
    [][\A p \in Procs :
          /\ GetStatusCounted(p) /\ Len(Ledger(urlsByTask, tid[p])) < 3
             => /\ pc'[p] = "idle"
                /\ reply' = [NoRes EXCEPT !.proc = p, !.op = "GetStatus",
                                          !.status = StatusInProgress]
                /\ UNCHANGED <<Tasks, urlsByTask, counters, fsys,
                               pipelineRuns>>
          /\ pc'[p] \in {"gs_rlock1", "gs_count"} /\ pc'[p] # pc[p]
             => UNCHANGED <<Tasks, urlsByTask, counters, fsys, pipelineRuns>>]_vars

\* a poll of a task with 1 or 2 urls has just been answered
C9_Witness ==
    /\ reply.op = "GetStatus" /\ reply.err = ""
    /\ reply.status = StatusInProgress
    /\ \E t \in DOMAIN Tasks : Len(Ledger(urlsByTask, t)) \in {1, 2}

\* the files a run downloaded, as a set
FileSet(fs) == {fs[j] : j \in 1..Len(fs)}

\* this step is goroutine p's createZipArchive (and deleteFiles)
Archived(p) == pc[p] = "gs_zip" /\ pc'[p] \in {"gs_dec", "gs_zipfailed"}

\* the archive file createZipArchive writes for goroutine p's task
ArchiveName(p) == Tasks[tid[p]].ArchivePath \o ".zip"

(***************************************************************************)
(* C10 as claimed.  A pipeline run ends with the task stored as failed if  *)
(* and only if none of its downloads succeeded; otherwise the task is      *)
(* stored as completed, the archive holds exactly the files downloaded     *)
(* and the answer carries a non-empty archive_url.  The code refutes it:   *)
(* createZipArchive may return an error, and it skips a file that os.Open  *)
(* refuses.                                                                *)
(***************************************************************************)
C10_FailedIffNoDownload ==
    [][\A p \in Procs :
          /\ PipelineReturned(p)
             => /\ Tasks'[tid[p]].Status = StatusFailed <=> Len(files[p]) = 0
                /\ Len(files[p]) > 0
                   => /\ Tasks'[tid[p]].Status = StatusCompleted
                      /\ reply'.archive_url # ""
          /\ Archived(p)
             => /\ pc'[p] = "gs_dec"
                /\ archives'[ArchiveName(p)] = FileSet(files[p])]_vars

(***************************************************************************)
(* C10 as amended.  A pipeline run ends with the task stored as failed if  *)
(* and only if none of its downloads succeeded or createZipArchive         *)
(* returned an error, and a run without a download never reaches           *)
(* createZipArchive.  Otherwise the task is stored as completed and the    *)
(* answer carries the status completed and a non-empty archive_url; the    *)
(* archive written holds only files this run downloaded, and all of them   *)
(* but those the file system refused.                                      *)
(***************************************************************************)
C10_FailedIffNoDownloadOrArchiveError ==
    [][\A p \in Procs :
          /\ PipelineReturned(p)
             => /\ Tasks'[tid[p]].Status = StatusFailed
                   <=> (Len(files[p]) = 0 \/ pc[p] = "gs_zipfailed")
                /\ Len(files[p]) = 0 => pc[p] = "gs_nofiles"
                /\ pc[p] = "gs_nofiles" => Len(files[p]) = 0
                /\ Tasks'[tid[p]].Status # StatusFailed
                   => /\ Tasks'[tid[p]].Status = StatusCompleted
                      /\ reply'.status = StatusCompleted
                      /\ reply'.archive_url # ""
          /\ Archived(p)
             => /\ Len(files[p]) > 0
                /\ pc'[p] = "gs_dec"
                   => /\ archives'[ArchiveName(p)] \subseteq FileSet(files[p])
                      /\ Cardinality(archives'[ArchiveName(p)])
                            >= Len(files[p]) - (faults' - faults)]_vars

\* a run has just answered completed, and an archive holds 1 or 2 files:
\* fewer than the 3 urls a run starts with
C10_Witness ==
    /\ reply.op = "GetStatus" /\ reply.status = StatusCompleted
    /\ reply.archive_url # ""
    /\ \E a \in DOMAIN archives : Cardinality(archives[a]) \in {1, 2}

\* a CreateTask call of goroutine p holds an id it has not returned yet
HoldsID(p) == pc[p] \in {"ct_save", "ct_lock", "ct_init"}

\* this step is goroutine p's line 69
IDAllocated(p) == pc[p] = "ct_id" /\ pc'[p] = "ct_save"

\* this step is the successful return of goroutine p's CreateTask
CreateTaskReturned(p) == HoldsID(p) /\ pc'[p] = "idle"

(***************************************************************************)
(* C11.  Every id CreateTask returns is one no earlier call returned; the  *)
(* ids are allocated in strictly increasing order, the first is 1 and      *)
(* each is one above the one before; no two calls in flight hold the same  *)
(* id; and the registry holds one record for an id, stored under that id.  *)
(***************************************************************************)
C11_IDsUniqueIncreasing ==
    [][/\ \A p \in Procs :
            /\ IDAllocated(p)
               => /\ tid'[p] = taskCounter + 1
                  /\ taskCounter' = tid'[p]
                  /\ tid'[p] \notin returned
                  /\ tid'[p] \notin DOMAIN Tasks
                  /\ \A q \in Procs \ {p} : HoldsID(q) => tid[q] < tid'[p]
            /\ CreateTaskReturned(p)
               => /\ reply'.op = "CreateTask" /\ reply'.err = ""
                  /\ reply'.taskID = tid[p]
                  /\ reply'.taskID \notin returned
                  /\ reply'.taskID \in 1..taskCounter
       /\ taskCounter' >= taskCounter
       /\ \A i \in DOMAIN Tasks' : Tasks'[i].ID = i /\ i \in 1..taskCounter']_vars

\* two calls that ran concurrently have returned the ids 1 and 2
C11_Witness ==
    /\ returned = {1, 2}
    /\ reply.op = "CreateTask" /\ reply.taskID = 1
    /\ DOMAIN Tasks = {1, 2}

Running(q) ==
    \/ CreateTaskInc(q) \/ CreateTaskID(q) \/ CreateTaskSave(q)
    \/ CreateTaskLock(q) \/ CreateTaskInit(q)
    \/ AddLinksRLock(q) \/ AddLinksRead(q) \/ AddLinksLock(q)
    \/ AddLinksWrite(q)
    \/ GetStatusRLock1(q) \/ GetStatusCount(q) \/ GetStatusRLock2(q)
    \/ GetStatusDownload(q) \/ GetStatusRUnlock(q) \/ GetStatusNoFiles(q)
    \/ GetStatusArchive(q) \/ GetStatusArchiveFailed(q)
    \/ GetStatusDecrement(q) \/ GetStatusComplete(q)

\* goroutine p is inside the download loop of GetStatus, lines 146-156
Downloading(p) == pc[p] = "gs_loop" /\ HoldsRLock(urlsMu, p)

(***************************************************************************)
(* C13.  While a GetStatus call is inside its download loop for a task, a  *)
(* call in progress that concerns another task is not blocked: it can      *)
(* take its next step.  The code refutes it: the loop runs under the read  *)
(* lock of urlsMu, and CreateTask and AddLinks need its write lock.        *)
(***************************************************************************)
C13_OtherTasksNotBlocked ==
    \A p, q \in Procs :
        /\ ~crashed
        /\ Downloading(p)
        /\ pc[q] # "idle" /\ tid[q] # tid[p]
        => ENABLED Running(q)

\* the files the program knows of: those on the disk, those the running
\* pipelines have downloaded, and the entries of the archives
KnownFiles ==
    disk \cup UNION {FileSet(files[p]) : p \in Procs}
         \cup UNION {archives[a] : a \in DOMAIN archives}

\* this step is a downloadFile call of goroutine p that took a counter value
TookCounter(p) ==
    pc[p] = "gs_loop" /\ idx'[p] = idx[p] + 1 /\ filesCounter' # filesCounter

\* the extensions downloadFile gives a file
Extensions == {"." \o FileAllowedExtensions[i] : i \in 1..Len(FileAllowedExtensions)}

(***************************************************************************)
(* C14.  Every download that takes a file-counter value takes the next     *)
(* one, which no earlier download took, and the file it returns has a      *)
(* name built from that value, which no file on the disk, in a running     *)
(* pipeline (of the same task or of another) or in an archive bears.       *)
(* Every file known bears the name of one task and one counter value       *)
(* handed out so far, and no two files on the disk share a name.           *)
(***************************************************************************)
C14_FileNamesDistinct ==
    [][/\ \A p \in Procs :
            TookCounter(p)
            => /\ filesCounter' = filesCounter + 1
               /\ Len(files'[p]) > Len(files[p])
                  => LET f == files'[p][Len(files'[p])]
                     IN /\ f.base \notin {g.base : g \in KnownFiles}
                        /\ \E e \in Extensions :
                              f.base = BaseName(tid[p], filesCounter', e)
                        /\ f \in disk'
       /\ filesCounter' >= filesCounter
       /\ \A g \in KnownFiles' :
             \E t \in 1..taskCounter', n \in 1..filesCounter', e \in Extensions :
                g.base = BaseName(t, n, e)
       /\ \A g, h \in disk' : g.base = h.base => g = h
       /\ \A p, q \in Procs :
             \A j \in 1..Len(files'[p]), k \in 1..Len(files'[q]) :
                files'[p][j].base = files'[q][k].base => p = q /\ j = k]_vars

\* two pipelines of the same task run at once and each has downloaded a file
C14_Witness ==
    \E p, q \in Procs :
        /\ p # q /\ tid[p] = tid[q]
        /\ pc[p] = "gs_loop" /\ pc[q] = "gs_loop"
        /\ Len(files[p]) > 0 /\ Len(files[q]) > 0

\* this step is the critical section of goroutine p's AddLinks: the call
\* returns nil
AddLinksAccepted(p) ==
    pc[p] \in {"al_lock", "al_write"} /\ pc'[p] = "idle"

(***************************************************************************)
(* C15 as claimed.  An AddLinks call that succeeds on a task stored as     *)
(* created leaves it created when the ledger then holds fewer than 3       *)
(* urls, and stores in progress when the ledger then holds 3.  The code    *)
(* refutes it: every AddLinks call that succeeds stores in progress.       *)
(***************************************************************************)
C15_InProgressAtThirdLink ==
    [][\A p \in Procs :
          AddLinksAccepted(p) /\ Tasks[tid[p]].Status = StatusCreated
          => /\ Len(urlsByTask'[tid[p]]) < 3
                => Tasks'[tid[p]].Status = StatusCreated
             /\ Len(urlsByTask'[tid[p]]) = 3
                => Tasks'[tid[p]].Status = StatusInProgress]_vars

(***************************************************************************)
(* C15 as amended.  The stored status of a task leaves created only in     *)
(* the step of an AddLinks call on that task that succeeds, and it         *)
(* becomes in progress; every AddLinks call that succeeds appends its      *)
(* urls to the ledger and stores the status in progress, however many      *)
(* urls the ledger then holds.                                             *)
(***************************************************************************)
C15_InProgressAtFirstAddLinks ==
    [][/\ \A t \in DOMAIN Tasks :
            Tasks[t].Status = StatusCreated /\ Tasks'[t].Status # StatusCreated
            => /\ Tasks'[t].Status = StatusInProgress
               /\ \E p \in Procs : AddLinksAccepted(p) /\ tid[p] = t
       /\ \A p \in Procs :
            AddLinksAccepted(p)
            => /\ reply'.proc = p /\ reply'.op = "AddLinks" /\ reply'.err = ""
               /\ urlsByTask'[tid[p]] = Ledger(urlsByTask, tid[p]) \o urls[p]
               /\ Tasks'[tid[p]].Status = StatusInProgress]_vars

\* an AddLinks call has just succeeded and its task, with 1 or 2 urls in the
\* ledger, is stored as in progress
C15_Witness ==
    /\ reply.op = "AddLinks" /\ reply.err = ""
    /\ \E t \in DOMAIN Tasks :
          /\ Len(Ledger(urlsByTask, t)) \in {1, 2}
          /\ Tasks[t].Status = StatusInProgress
          /\ Ledger(accepted, t) = Ledger(urlsByTask, t)

(***************************************************************************)
(* C16.  Whenever a pipeline run of GetStatus returns, the status in the   *)
(* answer is the status the run stored for the task.  The code refutes     *)
(* it: on the zero-downloads path the answer says "failed" and the record  *)
(* holds the status literal of the failed state.                           *)
(***************************************************************************)
C16_ReportedIsStored ==
    [][\A p \in Procs :
          PipelineReturned(p)
          => /\ reply'.proc = p /\ reply'.op = "GetStatus"
             /\ reply'.status = Tasks'[tid[p]].Status]_vars

(***************************************************************************)
(* C17.  No file larger than cfg.FileMaxSize is on the disk, in the files  *)
(* of a running pipeline or in an archive.  The code refutes it: only the  *)
(* declared ContentLength is compared with the limit, and a body whose     *)
(* length is not declared is copied whole.                                 *)
(***************************************************************************)
C17_NoFileOverMaxSize ==
    \A f \in KnownFiles : f.size <= FileMaxSize

(***************************************************************************)
(* C18.  When a pipeline run has built its archive, every file the run     *)
(* downloaded is removed from the disk but those the file system refused   *)
(* to remove (at most one per fault met in the step), and the run goes on  *)
(* to store and to answer completed.  The code refutes the first part:     *)
(* deleteFiles returns at the first error and leaves the files after it.   *)
(***************************************************************************)
C18_DeletionGoesOn ==
    [][\A p \in Procs :
          /\ Archived(p) /\ pc'[p] = "gs_dec"
             => Cardinality(FileSet(files[p]) \cap disk') <= faults' - faults
          /\ pc[p] \in {"gs_dec", "gs_save"} /\ pc'[p] # pc[p]
             => \/ pc'[p] = "gs_save"
                \/ /\ pc'[p] = "idle"
                   /\ Tasks'[tid[p]].Status = StatusCompleted
                   /\ reply'.status = StatusCompleted]_vars

(***************************************************************************)
(* C19.  The ledger of every task is the concatenation, in the order of    *)
(* acceptance, of the url lists of the AddLinks calls on it that returned  *)
(* nil.  The code refutes it: CreateTask saves the record, and only then   *)
(* sets the ledger of the new id to the empty list, dropping the urls an   *)
(* AddLinks call appended in between.                                      *)
(***************************************************************************)
C19_LedgerIsWhatWasAccepted ==
    \A t \in DOMAIN urlsByTask \cup DOMAIN accepted :
        Ledger(urlsByTask, t) = Ledger(accepted, t)

\* no call is in progress
Quiescent == \A p \in Procs : pc[p] = "idle"

(***************************************************************************)
(* C20.  The active-task counter is never negative, and whenever no call   *)
(* is in progress it equals the number of registered tasks that are        *)
(* created or in progress.  The code refutes it: every pipeline run that   *)
(* completes lowers the counter, also on a task already completed, and a   *)
(* run that fails does not lower it.                                       *)
(***************************************************************************)
C20_CounterCountsActiveTasks ==
    /\ activeTasksCounter >= 0
    /\ Quiescent => activeTasksCounter = Cardinality(ActiveTasks)

\* goroutine p serves a request (a process the runtime stopped serves none)
InFlight(p) == ~crashed /\ pc[p] # "idle"

\* goroutine p waits for s.urlsMu: as a writer for rw.w or for the readers to
\* leave, or as a reader asleep behind an announced writer
WaitsForLock(p) ==
    \/ pc[p] \in {"ct_lock", "al_lock"} /\ ~CanAnnounce(urlsMu)
    \/ pc[p] \in {"ct_init", "al_write"} /\ ~HoldsLock(urlsMu, p)
    \/ pc[p] \in {"al_read", "gs_count", "gs_loop"} /\ ~HoldsRLock(urlsMu, p)

(***************************************************************************)
(* C21.  The locks never deadlock: whenever a request is in flight, some   *)
(* request in flight can take its next step; and a request that cannot is  *)
(* one that waits for s.urlsMu, never one inside a repository method       *)
(* (GetTask and SaveTask take r.mu, take no other lock inside and are one  *)
(* step each).                                                             *)
(***************************************************************************)
C21_NoLockDeadlock ==
    /\ (\E p \in Procs : InFlight(p))
       => \E q \in Procs : InFlight(q) /\ ENABLED Running(q)
    /\ \A p \in Procs : InFlight(p) /\ ~ENABLED Running(p) => WaitsForLock(p)

\* a writer has announced itself and waits for a reader inside its download
\* loop, which can take its next step; or a reader sleeps behind that writer
C21_Witness ==
    \E p, q \in Procs :
        /\ InFlight(p) /\ InFlight(q)
        /\ WaitsForLock(q) /\ ~ENABLED Running(q)
        /\ Downloading(p) /\ ENABLED Running(p)

====
